---- MODULE Spec2Model ----
(***************************************************************************)
(* Model of sysapp/core/sysrequests.py: a facade of one-line functions     *)
(* over the psutil provider.  The module keeps no state of its own; the   *)
(* only state behind the facade is whether psutil was imported, the host   *)
(* platform, and the CPU-times sample psutil keeps for cpu_percent().      *)
(* What the host reports (memory, CPUs, disks, CPU times, kernel counters) *)
(* is an input of each provider read, so it may differ from one read to    *)
(* the next.  Each facade function is one action per caller, except        *)
(* available_ram_percent, which performs two separate provider reads       *)
(* (lines 108 and 109) and is split at them.                               *)
(***************************************************************************)
EXTENDS Integers, Sequences, FiniteSets

\* ---------------------------------------------------------------- bounds
MaxMem == 2        \* memory sizes range over 0..MaxMem
MaxCpus == 2       \* logical CPUs range over 1..MaxCpus
MaxTicks == 1      \* CPU time ticks (busy + idle) since boot
MaxSyscalls == 1   \* the kernel's own syscall count since boot

Callers == {"c1", "c2"}
Disks == {"sda", "sdb"}
ExistingPaths == {"/"}
Paths == {"/", "/nonexistent"}
Platforms == {"linux", "other"}

VARIABLES
    loaded,        \* whether `import psutil` succeeded at module load
    platform,      \* the host platform
    lastCpuTimes,  \* psutil's module-level sample used by cpu_percent(interval=None)
    pc,            \* per caller: position inside available_ram_percent, or "idle"
    available,     \* per caller: local `available` of available_ram_percent
    total,         \* per caller: local `total` of available_ram_percent
    call,          \* per caller: the last facade call made: [op, arg]
    view,          \* per caller: what the host reported to that call's provider reads
    outcome        \* per caller: how that call ended

provider == <<loaded, platform, lastCpuTimes>>
locals == <<pc, available, total>>
vars == <<loaded, platform, lastCpuTimes, pc, available, total, call, view, outcome>>

\* ------------------------------------------------------- values, outcomes
\* What the host can report.
MemReadings == {m \in [total : 0..MaxMem, available : 0..MaxMem] : m.available <= m.total}
CpuTimeReadings == {t \in [busy : 0..MaxTicks, idle : 0..MaxTicks] : t.busy + t.idle <= MaxTicks}
CpuCounts == 1..MaxCpus
SyscallCounts == 0..MaxSyscalls

NoArg == "-"
NoVal == "-"
NoCall == [op |-> "none", arg |-> NoArg]

\* A Python call ends by returning a value, by returning None, or by raising.
Return(v) == [kind |-> "value", val |-> v, err |-> "-"]
ReturnNone == [kind |-> "none", val |-> NoVal, err |-> "-"]
Raise(e) == [kind |-> "error", val |-> NoVal, err |-> e]
Pending == [kind |-> "pending", val |-> NoVal, err |-> "-"]

\* A Python int, boxed: every returned value is a record or a mapping.
PyInt(n) == [int |-> n]

\* A float quotient n/d, kept exact as a fraction.
Quotient(n, d) == [num |-> n, den |-> d]

\* --------------------------------------------------------------- provider
\* `psutil.<anything>` when the import at lines 10-13 failed: the except
\* branch only prints, so the name psutil is unbound.
NameErrorPsutil == Raise("NameError")

\* psutil.cpu_count(): the number of logical CPUs the host reports.
psutil_cpu_count(n) == Return(PyInt(n))

\* psutil.cpu_stats(): "syscalls: ... always set to 0 on Linux".
psutil_cpu_stats(n) == Return([syscalls |-> IF platform = "linux" THEN 0 ELSE n])

\* psutil.cpu_percent(interval=None): utilisation since the previous call (or
\* the import), rounded to one decimal; 0.0 when no time has elapsed.
psutil_cpu_percent(last, now) ==
    LET busyDelta == now.busy - last.busy
        allDelta == (now.busy + now.idle) - (last.busy + last.idle)
    IN  IF allDelta <= 0 THEN Return(Quotient(0, 10))
        ELSE Return(Quotient((2000 * busyDelta + allDelta) \div (2 * allDelta), 10))

\* psutil.virtual_memory(): one reading of the host's memory.
psutil_virtual_memory(m) == m

\* psutil.disk_usage(path): os.statvfs fails on a path that does not exist.
psutil_disk_usage(path) ==
    IF path \in ExistingPaths THEN Return([path |-> path])
    ELSE Raise("FileNotFoundError")

\* psutil.disk_io_counters(perdisk): a mapping keyed by disk, or the totals
\* (None when there is no disk).  The counters themselves are left out.
psutil_disk_io_counters(perdisk, ds) ==
    IF perdisk THEN Return([d \in ds |-> [disk |-> d]])
    ELSE IF ds = {} THEN ReturnNone
    ELSE Return([disk |-> "all"])

\* psutil.sensors_temperatures exists only on the platforms psutil has it for.
psutil_sensors_temperatures ==
    IF platform = "linux" THEN Return([coretemp |-> "celsius"])
    ELSE Raise("AttributeError")

\* ------------------------------------------------------------------- init
Init ==
    /\ loaded \in BOOLEAN
    /\ platform \in Platforms
    /\ lastCpuTimes = [busy |-> 0, idle |-> 0]
    /\ pc = [c \in Callers |-> "idle"]
    /\ available = [c \in Callers |-> 0]
    /\ total = [c \in Callers |-> 0]
    /\ call = [c \in Callers |-> NoCall]
    /\ view = [c \in Callers |-> <<>>]
    /\ outcome = [c \in Callers |-> Pending]

\* ----------------------------------------------------------------- facade
\* A facade function that ends in one step: records the call, what the host
\* reported to its provider read (nothing when psutil is unbound), and how
\* the call ended.
Finish(c, op, arg, seen, out) ==
    /\ pc[c] = "idle"
    /\ call' = [call EXCEPT ![c] = [op |-> op, arg |-> arg]]
    /\ view' = [view EXCEPT ![c] = IF loaded THEN seen ELSE <<>>]
    /\ outcome' = [outcome EXCEPT ![c] = IF loaded THEN out ELSE NameErrorPsutil]
    /\ UNCHANGED <<loaded, platform, locals>>

\* count_cpus with its result memoised per caller (as under functools.lru_cache):
\* a later call returns the retained value, whatever the host reports.
count_cpus_memoised(c) ==
    \E n \in CpuCounts :
        /\ Finish(c, "count_cpus", NoArg, <<n>>,
                  IF call[c].op = "count_cpus" /\ outcome[c].kind = "value"
                  THEN outcome[c] ELSE psutil_cpu_count(n))
        /\ UNCHANGED lastCpuTimes

count_cpus(c) ==
    \E n \in CpuCounts :
        /\ Finish(c, "count_cpus", NoArg, <<n>>, psutil_cpu_count(n))
        /\ UNCHANGED lastCpuTimes

cpu_stats(c) ==
    \E n \in SyscallCounts :
        /\ Finish(c, "cpu_stats", NoArg, <<n>>, psutil_cpu_stats(n))
        /\ UNCHANGED lastCpuTimes

cpu_percent(c) ==
    \E now \in CpuTimeReadings :
        /\ now.busy >= lastCpuTimes.busy
        /\ now.idle >= lastCpuTimes.idle
        /\ Finish(c, "cpu_percent", NoArg, <<now>>, psutil_cpu_percent(lastCpuTimes, now))
        /\ lastCpuTimes' = IF loaded THEN now ELSE lastCpuTimes

virtual_memory(c) ==
    \E m \in MemReadings :
        /\ Finish(c, "virtual_memory", NoArg, <<m>>, Return(psutil_virtual_memory(m)))
        /\ UNCHANGED lastCpuTimes

disk_usage(c) ==
    \E path \in Paths :
        /\ Finish(c, "disk_usage", path, <<path \in ExistingPaths>>, psutil_disk_usage(path))
        /\ UNCHANGED lastCpuTimes

\* io_statistics asking the provider for the system-wide totals (perdisk=False).
io_statistics_aggregate(c) ==
    \E ds \in SUBSET Disks :
        /\ Finish(c, "io_statistics", NoArg, <<ds>>, psutil_disk_io_counters(FALSE, ds))
        /\ UNCHANGED lastCpuTimes

io_statistics(c) ==
    \E ds \in SUBSET Disks :
        /\ Finish(c, "io_statistics", NoArg, <<ds>>, psutil_disk_io_counters(TRUE, ds))
        /\ UNCHANGED lastCpuTimes

sensors_temp(c) ==
    /\ Finish(c, "sensors_temp", NoArg, <<>>, psutil_sensors_temperatures)
    /\ UNCHANGED lastCpuTimes

\* The body is `...`: the function falls off its end and returns None,
\* whether or not psutil was imported.
sensors_fans(c) ==
    /\ pc[c] = "idle"
    /\ call' = [call EXCEPT ![c] = [op |-> "sensors_fans", arg |-> NoArg]]
    /\ view' = [view EXCEPT ![c] = <<>>]
    /\ outcome' = [outcome EXCEPT ![c] = ReturnNone]
    /\ UNCHANGED <<provider, locals>>

\* available_ram_percent, line 108: available = psutil.virtual_memory().available
arp_read_available(c) ==
    /\ pc[c] = "idle"
    /\ call' = [call EXCEPT ![c] = [op |-> "available_ram_percent", arg |-> NoArg]]
    /\ IF loaded
       THEN \E m \in MemReadings :
                /\ available' = [available EXCEPT ![c] = psutil_virtual_memory(m).available]
                /\ view' = [view EXCEPT ![c] = <<m>>]
                /\ outcome' = [outcome EXCEPT ![c] = Pending]
                /\ pc' = [pc EXCEPT ![c] = "arp_total"]
       ELSE /\ view' = [view EXCEPT ![c] = <<>>]
            /\ outcome' = [outcome EXCEPT ![c] = NameErrorPsutil]
            /\ UNCHANGED <<available, pc>>
    /\ UNCHANGED <<provider, total>>

\* line 109: total = psutil.virtual_memory().total
arp_read_total(c) ==
    /\ pc[c] = "arp_total"
    /\ \E m \in MemReadings :
            /\ total' = [total EXCEPT ![c] = psutil_virtual_memory(m).total]
            /\ view' = [view EXCEPT ![c] = Append(@, m)]
    /\ pc' = [pc EXCEPT ![c] = "arp_compute"]
    /\ UNCHANGED <<provider, available, call, outcome>>

\* line 110: percentage = (available * 100) / total
Percentage(a, t) ==
    IF t = 0 THEN Raise("ZeroDivisionError") ELSE Return(Quotient(a * 100, t))

\* lines 110-111: compute and return; the locals end with the call.
arp_compute(c) ==
    /\ pc[c] = "arp_compute"
    /\ outcome' = [outcome EXCEPT ![c] = Percentage(available[c], total[c])]
    /\ pc' = [pc EXCEPT ![c] = "idle"]
    /\ available' = [available EXCEPT ![c] = 0]
    /\ total' = [total EXCEPT ![c] = 0]
    /\ UNCHANGED <<provider, call, view>>

Next ==
    \E c \in Callers :
        \/ count_cpus(c)
        \/ cpu_stats(c)
        \/ cpu_percent(c)
        \/ virtual_memory(c)
        \/ disk_usage(c)
        \/ io_statistics(c)
        \/ sensors_temp(c)
        \/ sensors_fans(c)
        \/ arp_read_available(c)
        \/ arp_read_total(c)
        \/ arp_compute(c)

Spec == Init /\ [][Next]_vars

\* ----------------------------------------------------------------- claims
\* Caller c's last call has ended.
Done(c) == pc[c] = "idle" /\ outcome[c].kind # "pending"
Made(c, op) == Done(c) /\ call[c].op = op

\* The fraction p as a number lies in [0, 100].
InPercentRange(p) == p.den > 0 /\ 0 <= p.num /\ p.num <= 100 * p.den
\* Two fractions are the same number.
SameNumber(p, q) == p.num * q.den = q.num * p.den
SameOutcome(o1, o2) ==
    /\ o1.kind = o2.kind
    /\ o1.err = o2.err
    /\ (o1.kind = "value" => o1.val = o2.val)

\* C1: with psutil imported and every memory reading of the call reporting
\* total > 0, available_ram_percent() returns a value in [0, 100], also when
\* the readings change between its two provider reads.
C1_AvailablePercentInRange ==
    \A c \in Callers :
        ( /\ loaded
          /\ Made(c, "available_ram_percent")
          /\ \A i \in 1..Len(view[c]) : view[c][i].total > 0 )
        => /\ outcome[c].kind = "value"
           /\ InPercentRange(outcome[c].val)

\* C2: when the provider reports total = 0, available_ram_percent() ends with
\* the typed outcome Undefined, never with a division fault.
C2_ZeroTotalIsUndefined ==
    \A c \in Callers :
        ( /\ loaded
          /\ Made(c, "available_ram_percent")
          /\ view[c][2].total = 0 )
        => /\ outcome[c].kind = "error"
           /\ outcome[c].err = "Undefined"

\* C3: disk_usage(path) on a path that does not exist fails with
\* InvalidArgument: no record, no other error.
C3_MissingPathIsInvalidArgument ==
    \A c \in Callers :
        ( /\ loaded
          /\ Made(c, "disk_usage")
          /\ call[c].arg \notin ExistingPaths )
        => /\ outcome[c].kind = "error"
           /\ outcome[c].err = "InvalidArgument"

\* C4: when the import of psutil failed, every facade query fails with
\* ProviderUnavailable: no other error, no value.
C4_UnloadedIsProviderUnavailable ==
    ~loaded =>
        \A c \in Callers :
            Done(c) => /\ outcome[c].kind = "error"
                       /\ outcome[c].err = "ProviderUnavailable"

\* C5: every call ends by returning a record or by failing with an error;
\* none ends with an empty (None) result.
C5_RecordOrError ==
    \A c \in Callers : Done(c) => outcome[c].kind \in {"value", "error"}

\* C6: on a platform whose provider has no syscalls counter, cpu_stats() does
\* not return a record carrying syscalls = 0 when the kernel has performed
\* syscalls.
C6_NoPlaceholderSyscalls ==
    \A c \in Callers :
        ( /\ loaded
          /\ platform = "linux"
          /\ Made(c, "cpu_stats")
          /\ view[c][1] > 0 )
        => ~( outcome[c].kind = "value" /\ outcome[c].val.syscalls = 0 )

C9_OneEntryPerDisk ==
    \A c \in Callers :
        ( loaded /\ Made(c, "io_statistics") )
        => /\ outcome[c].kind = "value"
           /\ DOMAIN outcome[c].val = view[c][1]

\* io_statistics() has returned while the host reported every disk.
C9_Witness ==
    \E c \in Callers :
        /\ Made(c, "io_statistics")
        /\ outcome[c].kind = "value"
        /\ view[c][1] = Disks
        /\ Cardinality(DOMAIN outcome[c].val) = Cardinality(Disks)

\* C10: the value available_ram_percent() returns is available*100/total of
\* one of the memory readings the call took (each reporting total > 0).
C10_PercentOfOneReading ==
    \A c \in Callers :
        ( /\ Made(c, "available_ram_percent")
          /\ outcome[c].kind = "value"
          /\ \A i \in 1..Len(view[c]) : view[c][i].total > 0 )
        => \E i \in 1..Len(view[c]) :
               /\ view[c][i].total > 0
               /\ SameNumber(outcome[c].val,
                             Quotient(view[c][i].available * 100, view[c][i].total))

====
